---- MODULE Spec2Model ----
(***************************************************************************)
(* Model of src-tauri/src/lib.rs: the function run() of the binblock++     *)
(* desktop shell.  run() registers three plugins on the host builder,      *)
(* hands the host a setup closure that builds and attaches the menu bar    *)
(* and registers the menu-event callback, and starts the host's run loop.  *)
(* The host framework is the environment: it may fail any fallible call,   *)
(* it owns the window registry, and it delivers menu events one by one.    *)
(***************************************************************************)
EXTENDS Naturals, Sequences, FiniteSets

\* Bound on the number of menu events the host delivers in one behaviour.
MaxEvents == 3

VARIABLES
    pc,         \* the statement of run() that executes next
    plugins,    \* the plugins registered on the builder, in order
    env,        \* the let-bindings of the setup closure
    appMenu,    \* the menu attached to the application (app.set_menu)
    handler,    \* TRUE once app.on_menu_event has registered the callback
    windows,    \* labels of the webview windows in the host's registry
    emitted,    \* every window.emit call made so far, with its result
    delivered,  \* history: every menu event handed to the callback
    failed,     \* the statement whose call failed, "none" if none did
    exit,       \* the process exit: status and diagnostic
    life        \* history: the lifecycle states the process went through

vars == <<pc, plugins, env, appMenu, handler, windows, emitted, delivered,
          failed, exit, life>>

----------------------------------------------------------------------------
\* Values of the menu tree

Entry(kind, id, text, accel, items) ==
    [kind |-> kind, id |-> id, text |-> text, accel |-> accel, items |-> items]

None == Entry("none", "", "", "", <<>>)

NoAccel == ""

MenuItem(id, text, accel) == Entry("item", id, text, accel, <<>>)

Separator == Entry("separator", "", "", NoAccel, <<>>)

Submenu(text, items) == Entry("submenu", "", text, NoAccel, items)

\* The id the host generates for the predefined About entry: it is not one
\* the program chooses, and differs from every id given with with_id.
AboutId == "predefined:about"

Menu(items) == Entry("menu", "", "", NoAccel, items)

----------------------------------------------------------------------------
\* The values the setup closure builds, lib.rs:14-41

BuildUndo == MenuItem("edit:undo", "Undo", "CmdOrCtrl+Z")

BuildRedoSameAccel == MenuItem("edit:redo", "Redo", "CmdOrCtrl+Z")

BuildRedo == MenuItem("edit:redo", "Redo", "CmdOrCtrl+Shift+Z")

BuildClear == MenuItem("edit:clear", "Clear Grid", NoAccel)

BuildEditMenuClearFirst(undo, redo, clear) ==
    Submenu("Edit", <<clear, Separator, undo, redo>>)

BuildEditMenu(undo, redo, clear) ==
    Submenu("Edit", <<undo, redo, Separator, clear>>)

BuildResetView == MenuItem("view:reset", "Reset View", "CmdOrCtrl+0")

BuildViewMenu(reset_view) == Submenu("View", <<reset_view>>)

BuildAbout == Entry("about", AboutId, "binblock++", NoAccel, <<>>)

BuildMenu(about, edit_menu, view_menu) == Menu(<<about, edit_menu, view_menu>>)

----------------------------------------------------------------------------
\* The statements of run() in execution order

OrderPluginLate ==
    <<"plugin_opener", "plugin_dialog", "run",
      "undo", "redo", "clear", "edit_menu", "reset_view", "view_menu",
      "about", "menu", "set_menu", "plugin_fs", "on_menu_event", "running">>

Order ==
    <<"plugin_opener", "plugin_dialog", "plugin_fs", "run",
      "undo", "redo", "clear", "edit_menu", "reset_view", "view_menu",
      "about", "menu", "set_menu", "on_menu_event", "running">>

Pos(s) == CHOOSE i \in 1..Len(Order) : Order[i] = s

After(s) == Order[Pos(s) + 1]

PluginSteps == {"plugin_opener", "plugin_dialog", "plugin_fs"}

PluginOf(s) ==
    CASE s = "plugin_opener" -> "opener"
      [] s = "plugin_dialog" -> "dialog"
      [] s = "plugin_fs"     -> "fs"

BuildSteps == {"undo", "redo", "clear", "edit_menu", "reset_view",
               "view_menu", "about", "menu"}

SetupSteps == BuildSteps \cup {"set_menu"}

Locals == BuildSteps

\* The window labels of the host's registry; the callback looks up "main".
Labels == {"main", "other"}

ExpectMsg == "error while running tauri application"

HostMsg == "host diagnostic"

NoExit == [status |-> 0, diag |-> "running"]

Panic(msg) == [status |-> 101, diag |-> msg]

Returned == [status |-> 0, diag |-> ""]

\* The error of .run dropped instead of unwrapped: run() returns normally.
ExpectIgnored == Returned

\* .expect("error while running tauri application") on an Err: the process
\* panics with that message.
ExpectFailure == Panic(ExpectMsg)

\* The lifecycle state that a position of run() belongs to
Lifecycle(p) ==
    CASE p = "running"    -> "running"
      [] p = "terminated" -> "terminated"
      [] OTHER            -> "not started"

Track ==
    life' = IF Lifecycle(pc') # Lifecycle(pc)
            THEN Append(life, Lifecycle(pc'))
            ELSE life

----------------------------------------------------------------------------
Init ==
    /\ pc = "plugin_opener"
    /\ plugins = <<>>
    /\ env = [l \in Locals |-> None]
    /\ appMenu = None
    /\ handler = FALSE
    /\ windows = {}
    /\ emitted = <<>>
    /\ delivered = <<>>
    /\ failed = "none"
    /\ exit = NoExit
    /\ life = <<"not started">>

\* A failed call whose error is dropped: the next statement runs.
Swallow(s) ==
    /\ pc' = After(s)
    /\ failed' = s
    /\ UNCHANGED exit

\* A failed call at statement s ends startup: the `?` of the setup closure
\* returns the error to the host, a builder failure surfaces at .expect.
Propagate(s) ==
    /\ pc' = "terminated"
    /\ failed' = s
    /\ \E d \in {ExpectMsg, HostMsg} : exit' = Panic(d)

\* .plugin(tauri_plugin_X::init())
RegisterPlugin ==
    /\ pc \in PluginSteps
    /\ \/ /\ plugins' = Append(plugins, PluginOf(pc))
          /\ pc' = After(pc)
          /\ UNCHANGED <<failed, exit>>
       \/ /\ Propagate(pc)
          /\ UNCHANGED plugins
    /\ UNCHANGED <<env, appMenu, handler, windows, emitted, delivered>>
    /\ Track

\* .run(context): the host builds the application, creates the windows its
\* configuration names, and calls the setup closure; or it fails to start.
RunStart ==
    /\ pc = "run"
    /\ \/ /\ \E ws \in SUBSET Labels : windows' = ws
          /\ pc' = After(pc)
          /\ UNCHANGED <<failed, exit>>
       \/ /\ pc' = "terminated"
          /\ failed' = "run"
          /\ exit' = ExpectFailure
          /\ UNCHANGED windows
    /\ UNCHANGED <<plugins, env, appMenu, handler, emitted, delivered>>
    /\ Track

\* The value a build statement binds
Built(s) ==
    CASE s = "undo"       -> BuildUndo
      [] s = "redo"       -> BuildRedo
      [] s = "clear"      -> BuildClear
      [] s = "edit_menu"  -> BuildEditMenu(env.undo, env.redo, env.clear)
      [] s = "reset_view" -> BuildResetView
      [] s = "view_menu"  -> BuildViewMenu(env.reset_view)
      [] s = "about"      -> BuildAbout
      [] s = "menu"       -> BuildMenu(env.about, env.edit_menu, env.view_menu)

\* let x = ...build(app)?;
BuildStep ==
    /\ pc \in BuildSteps
    /\ \/ /\ env' = [env EXCEPT ![pc] = Built(pc)]
          /\ pc' = After(pc)
          /\ UNCHANGED <<failed, exit>>
       \/ /\ Propagate(pc)
          /\ UNCHANGED env
    /\ UNCHANGED <<plugins, appMenu, handler, windows, emitted, delivered>>
    /\ Track

\* app.set_menu(menu)?;  on failure the host may or may not have attached it
SetMenu ==
    /\ pc = "set_menu"
    /\ \/ /\ appMenu' = env.menu
          /\ pc' = After(pc)
          /\ UNCHANGED <<failed, exit>>
       \/ /\ Propagate(pc)
          /\ appMenu' \in {appMenu, env.menu}
    /\ UNCHANGED <<plugins, env, handler, windows, emitted, delivered>>
    /\ Track

\* app.on_menu_event(...); Ok(())  -- the host then enters its run loop
RegisterHandler ==
    /\ pc = "on_menu_event"
    /\ handler' = TRUE
    /\ pc' = After(pc)
    /\ UNCHANGED <<plugins, env, appMenu, windows, emitted, delivered,
                   failed, exit>>
    /\ Track

\* A window.emit call: the window it is made on, the event name, the
\* payload, and whether the host reported success.
Emit(window, event, payload, ok) ==
    [window |-> window, event |-> event, payload |-> payload, ok |-> ok]

\* app_handle.get_webview_window(label): Some(window) or None
GetWebviewWindow(label) == IF label \in windows THEN {label} ELSE {}

Quiet == UNCHANGED <<pc, plugins, env, appMenu, handler, windows, failed, exit>>

\* Variants of the callback that a slip in lib.rs:46-51 would produce
OnMenuEventOtherName(id) ==
    /\ IF GetWebviewWindow("main") # {}
       THEN \E ok \in BOOLEAN :
              emitted' = Append(emitted, Emit("main", "menu_event", id, ok))
       ELSE emitted' = emitted
    /\ Quiet

OnMenuEventNoLookup(id) ==
    /\ \E ok \in BOOLEAN :
         emitted' = Append(emitted, Emit("main", "menu-event", id, ok))
    /\ Quiet

OnMenuEventTwice(id) ==
    /\ IF GetWebviewWindow("main") # {}
       THEN \E ok \in BOOLEAN :
              emitted' = emitted \o << Emit("main", "menu-event", id, ok),
                                       Emit("main", "menu-event", id, ok) >>
       ELSE emitted' = emitted
    /\ Quiet

OnMenuEventUnwrap(id) ==
    IF GetWebviewWindow("main") # {}
    THEN \E ok \in BOOLEAN :
           /\ emitted' = Append(emitted, Emit("main", "menu-event", id, ok))
           /\ IF ok
              THEN Quiet
              ELSE /\ pc' = "terminated"
                   /\ exit' = Panic(HostMsg)
                   /\ UNCHANGED <<plugins, env, appMenu, handler, windows,
                                  failed>>
    ELSE emitted' = emitted /\ Quiet

\* The menu-event callback:
\*   let id = event.id().as_ref();
\*   if let Some(window) = app_handle.get_webview_window("main") {
\*       let _ = window.emit("menu-event", id);
\*   }
OnMenuEvent(id) ==
    /\ IF GetWebviewWindow("main") # {}
       THEN \E ok \in BOOLEAN :
              emitted' = Append(emitted, Emit("main", "menu-event", id, ok))
       ELSE emitted' = emitted
    /\ Quiet

Range(seq) == {seq[i] : i \in DOMAIN seq}

\* Every entry of a menu: its top-level entries and those of its submenus
Entries(menu) ==
    Range(menu.items) \cup UNION {Range(e.items) : e \in Range(menu.items)}

\* The ids of the entries of the attached menu that a user can activate: the
\* items built with with_id and the predefined About entry.
ActivatableIds(menu) ==
    {e.id : e \in {x \in Entries(menu) : x.kind \in {"item", "about"}}}

\* The host delivers one menu event to the registered callback, which runs
\* to completion.
MenuEvent ==
    /\ pc = "running"
    /\ handler
    /\ Len(delivered) < MaxEvents
    /\ \E id \in ActivatableIds(appMenu) :
         /\ OnMenuEvent(id)
         /\ delivered' = Append(delivered,
                                [id |-> id, main |-> "main" \in windows])
    /\ Track

\* The host adds a window to its registry.
WindowCreated ==
    /\ pc = "running"
    /\ \E w \in Labels \ windows : windows' = windows \cup {w}
    /\ UNCHANGED <<pc, plugins, env, appMenu, handler, emitted, delivered,
                   failed, exit>>
    /\ Track

\* The host removes a closed window from its registry.
WindowClosed ==
    /\ pc = "running"
    /\ \E w \in windows : windows' = windows \ {w}
    /\ UNCHANGED <<pc, plugins, env, appMenu, handler, emitted, delivered,
                   failed, exit>>
    /\ Track

\* The run loop ends normally: .run returns Ok(()), .expect passes and run()
\* returns.
RunLoopExit ==
    /\ pc = "running"
    /\ pc' = "terminated"
    /\ exit' = Returned
    /\ windows' = {}
    /\ UNCHANGED <<plugins, env, appMenu, handler, emitted, delivered, failed>>
    /\ Track

Next ==
    \/ RegisterPlugin
    \/ RunStart
    \/ BuildStep
    \/ SetMenu
    \/ RegisterHandler
    \/ MenuEvent
    \/ WindowCreated
    \/ WindowClosed
    \/ RunLoopExit

Spec == Init /\ [][Next]_vars

----------------------------------------------------------------------------
\* Properties

Last(seq) == seq[Len(seq)]

DeclaredIds == {"edit:undo", "edit:redo", "edit:clear", "view:reset"}

\* C1: whenever the callback receives a menu event with id X while a window
\* named "main" exists, it makes exactly one emit call, on the window "main",
\* of the event "menu-event" with payload X, and nothing else is emitted.
C1_ExactlyOneEmission ==
    [][ (delivered' # delivered /\ "main" \in windows) =>
          \E ok \in BOOLEAN :
            emitted' = Append(emitted,
                              [window |-> "main", event |-> "menu-event",
                               payload |-> Last(delivered').id, ok |-> ok])
      ]_vars

C1_Witness ==
    /\ delivered # <<>>
    /\ Last(delivered).main
    /\ emitted # <<>>
    /\ Last(emitted).payload = Last(delivered).id

\* C2: a menu event received while no window named "main" exists emits
\* nothing and raises no error: the application stays running; and no step
\* other than the handling of a menu event emits anything, so a dropped
\* event is never delivered later to a "main" window that appears afterwards.
C2_DroppedWithoutMain ==
    [][ /\ (delivered' # delivered /\ "main" \notin windows) =>
              /\ emitted' = emitted
              /\ pc = "running" /\ pc' = "running"
              /\ exit' = exit
              /\ failed' = failed
        /\ (delivered' = delivered => emitted' = emitted)
      ]_vars

C2_Witness ==
    /\ delivered # <<>>
    /\ ~Last(delivered).main
    /\ "main" \in windows
    /\ pc = "running"
    /\ Len(emitted) < Len(delivered)

\* C3: the payload of every emitted "menu-event" is one of the four declared
\* item ids and names exactly one declared MenuItem of the attached menu,
\* for every menu event the host can deliver, the About entry's included.
C3_PayloadsAreDeclaredIds ==
    \A i \in DOMAIN emitted :
        /\ emitted[i].payload \in DeclaredIds
        /\ Cardinality({e \in Entries(appMenu) :
                          e.kind = "item" /\ e.id = emitted[i].payload}) = 1

\* C4: after a successful initialization the attached menu is exactly
\* [About, Edit[Undo, Redo, separator, Clear Grid], View[Reset View]], its
\* custom ids are the four declared ids without duplicates, and this remains
\* so after every later menu activation.
C4_MenuShape ==
    handler =>
      LET item(id, text, accel) ==
              [kind |-> "item", id |-> id, text |-> text, accel |-> accel,
               items |-> <<>>]
          sep == [kind |-> "separator", id |-> "", text |-> "", accel |-> "",
                  items |-> <<>>]
          sub(text, items) ==
              [kind |-> "submenu", id |-> "", text |-> text, accel |-> "",
               items |-> items]
          flat == appMenu.items[2].items \o appMenu.items[3].items
          idx == {i \in DOMAIN flat : flat[i].kind = "item"}
      IN  /\ appMenu.kind = "menu"
          /\ Len(appMenu.items) = 3
          /\ appMenu.items[1].kind = "about"
          /\ appMenu.items[2] =
               sub("Edit", << item("edit:undo", "Undo", "CmdOrCtrl+Z"),
                              item("edit:redo", "Redo", "CmdOrCtrl+Shift+Z"),
                              sep,
                              item("edit:clear", "Clear Grid", "") >>)
          /\ appMenu.items[3] =
               sub("View", << item("view:reset", "Reset View", "CmdOrCtrl+0") >>)
          /\ {flat[i].id : i \in idx} = DeclaredIds
          /\ Cardinality(idx) = 4

C4_Witness ==
    /\ handler
    /\ pc = "running"
    /\ Len(delivered) >= 2

\* C5: after a successful initialization "edit:undo" has CmdOrCtrl+Z,
\* "edit:redo" has CmdOrCtrl+Shift+Z, "view:reset" has CmdOrCtrl+0,
\* "edit:clear" has no accelerator, and no two items share an accelerator.
C5_Accelerators ==
    handler =>
      LET items == {e \in Entries(appMenu) : e.kind = "item"}
          want == [id \in DeclaredIds |->
                     CASE id = "edit:undo"  -> "CmdOrCtrl+Z"
                       [] id = "edit:redo"  -> "CmdOrCtrl+Shift+Z"
                       [] id = "view:reset" -> "CmdOrCtrl+0"
                       [] id = "edit:clear" -> ""]
      IN  /\ {e.id : e \in items} = DeclaredIds
          /\ \A e \in items : e.accel = want[e.id]
          /\ \A e1, e2 \in items :
               (e1.accel # "" /\ e1.accel = e2.accel) => e1 = e2

C5_Witness ==
    /\ handler
    /\ \E e \in Entries(appMenu) : e.id = "edit:redo" /\ e.accel # ""
    /\ \E e \in Entries(appMenu) : e.id = "edit:clear" /\ e.accel = ""

\* C6: the three plugins are registered before any menu construction step,
\* and when the registration of one of them fails startup aborts with no
\* menu item, submenu or menu built, no menu attached and no callback
\* registered.
C6_PluginsBeforeMenu ==
    /\ ((\E l \in Locals : env[l] # None) \/ appMenu # None \/ handler)
          => plugins = <<"opener", "dialog", "fs">>
    /\ failed \in PluginSteps =>
          /\ pc = "terminated"
          /\ \A l \in Locals : env[l] = None
          /\ appMenu = None
          /\ ~handler

C6_Witness ==
    /\ failed = "plugin_fs"
    /\ plugins = <<"opener", "dialog">>
    /\ pc = "terminated"

\* C7: when a build step or set_menu fails in setup, the error is returned
\* at once: no later step of setup has run, the callback is not registered,
\* no menu is attached when a build step failed, the application never
\* reaches the running state, no menu event is ever emitted, and the failed
\* step is not tried again.
C7_SetupFailFast ==
    failed \in SetupSteps =>
        /\ pc = "terminated"
        /\ exit.status # 0
        /\ "running" \notin Range(life)
        /\ ~handler
        /\ emitted = <<>> /\ delivered = <<>>
        /\ failed \in BuildSteps => appMenu = None
        /\ \A l \in Locals : Pos(l) >= Pos(failed) => env[l] = None
        /\ \A l \in Locals : Pos(l) < Pos(failed) => env[l] # None

C7_Witness ==
    /\ failed = "edit_menu"
    /\ env.clear # None
    /\ env.edit_menu = None
    /\ pc = "terminated"

\* C8: the lifecycle is not started, then possibly running, then possibly
\* terminated, with no other transition and nothing after terminated; a
\* failure to start the run loop terminates with a non-zero status and the
\* diagnostic "error while running tauri application"; a normal end of the
\* run loop terminates with status 0.
C8_Lifecycle ==
    /\ life \in { <<"not started">>,
                  <<"not started", "running">>,
                  <<"not started", "terminated">>,
                  <<"not started", "running", "terminated">> }
    /\ failed = "run" =>
          /\ life = <<"not started", "terminated">>
          /\ exit.status # 0
          /\ exit.diag = "error while running tauri application"
    /\ (pc = "terminated" /\ failed = "none") =>
          /\ life = <<"not started", "running", "terminated">>
          /\ exit.status = 0
    /\ (pc = "terminated" /\ failed # "none") => exit.status # 0

C8_Witness ==
    /\ life = <<"not started", "running", "terminated">>
    /\ exit.status = 0
    /\ delivered # <<>>

\* C9: the payloads emitted to the "main" window are, in order, the ids of
\* exactly those delivered menu events that were handled while the "main"
\* window existed: nothing reordered, duplicated or merged.
C9_OrderPreserved ==
    LET kept == SelectSeq(delivered, LAMBDA d : d.main)
    IN  /\ Len(emitted) = Len(kept)
        /\ \A i \in DOMAIN emitted :
              /\ emitted[i].payload = kept[i].id
              /\ emitted[i].window = "main"
              /\ emitted[i].event = "menu-event"

C9_Witness ==
    /\ Len(delivered) = 3
    /\ delivered[1].main /\ ~delivered[2].main /\ delivered[3].main
    /\ delivered[1].id # delivered[3].id
    /\ delivered[2].id # delivered[3].id
    /\ Len(emitted) = 2

\* C10: when the emit call on the "main" window fails, the callback drops the
\* error: one emit call and no retry, the menu, the registered callback and
\* the running state unchanged, no exit; and every activation handled after
\* a failed emit is emitted as usual.
C10_EmitErrorDiscarded ==
    [][ (delivered' # delivered /\ "main" \in windows) =>
          LET n == Len(emitted')
              failsNow == n > Len(emitted) /\ ~emitted'[n].ok
              failedBefore == \E i \in DOMAIN emitted : ~emitted[i].ok
          IN  (failsNow \/ failedBefore) =>
                /\ n = Len(emitted) + 1
                /\ emitted'[n].payload = Last(delivered').id
                /\ pc' = "running"
                /\ handler' /\ appMenu' = appMenu
                /\ exit' = exit /\ failed' = failed
      ]_vars

C10_Witness ==
    /\ pc = "running"
    /\ Len(emitted) >= 2
    /\ ~emitted[1].ok
    /\ emitted[2].ok

====
